---- MODULE Spec2Model ----
(***************************************************************************)
(* Model of snpedia-23andme.py (Python 2): the SNPedia wikitext parser     *)
(* read_snpedia, the orientation switch, the match test, and the script    *)
(* body with its three cache tiers (snpedia-archive.json, the page entries *)
(* of snpedia-archive.zip, the "snpedia_rsids" entry of the same zip).     *)
(*                                                                         *)
(* Python strings are sequences of one-character strings.  Floats are      *)
(* integers counting hundredths.  Python's None is the string "None".      *)
(***************************************************************************)
EXTENDS Integers, Sequences, FiniteSets, TLC

\* ------------------------------------------------------------------ bounds
MaxRows == 2
MaxRuns == 2
MaxMatches == 3
MaxTableRows == 2

\* -------------------------------------------------------------- characters
None == "None"
\* an absent magnitude (None) is <<>>, a float f is <<f>>
NoneMag == <<>>
NL == "\n"
Digits == {"0", "1", "2", "5", "9"}
Bases == {"A", "T", "C", "G"}
Letters == {"A", "T", "C", "G", "D", "I", "R",
            "i", "l", "m", "n", "p", "r", "s", "u", "x"}
WordChars == Letters \cup Digits \cup {"_"}
Whitespace == {" ", NL}

\* code points, for str comparison in sorted()
CharOrder == <<NL, " ", "#", "(", ")", ".", "0", "1", "2", "5", "9", ";",
               "A", "C", "D", "G", "I", "R", "T", "]", "_",
               "i", "l", "m", "n", "p", "r", "s", "u", "x">>

Ord(c) == CHOOSE i \in 1..Len(CharOrder) : CharOrder[i] = c

Range(s) == {s[i] : i \in 1..Len(s)}

RECURSIVE Filter(_, _)
\* the characters of s that are in set keep, in order
Filter(s, keep) ==
    IF s = <<>> THEN <<>>
    ELSE IF Head(s) \in keep THEN <<Head(s)>> \o Filter(Tail(s), keep)
    ELSE Filter(Tail(s), keep)

Reverse(s) == [i \in 1..Len(s) |-> s[Len(s) + 1 - i]]

\* str.lower / str.upper on one character
LowerChar(c) == IF c = "R" THEN "r" ELSE c
UpperChar(c) == IF c = "r" THEN "R" ELSE c

lower(s) == [i \in 1..Len(s) |-> LowerChar(s[i])]

\* a capitalize that leaves the string as it is
capitalizeNothing(s) == s

\* str.capitalize: first character upper-cased, the rest lower-cased
capitalize(s) == [i \in 1..Len(s) |-> IF i = 1 THEN UpperChar(s[i]) ELSE LowerChar(s[i])]

RECURSIVE lstrip(_)
lstrip(s) == IF s # <<>> /\ Head(s) \in Whitespace THEN lstrip(Tail(s)) ELSE s

\* str.rstrip
rstrip(s) == Reverse(lstrip(Reverse(s)))

\* str.strip
strip(s) == rstrip(lstrip(s))

\* --------------------------------------------------------------- floats
DigitVal(c) == CASE c = "0" -> 0 [] c = "1" -> 1 [] c = "2" -> 2
                 [] c = "5" -> 5 [] c = "9" -> 9

RECURSIVE IntOf(_)
\* value of a digit string, "" counting as 0
IntOf(s) == IF s = <<>> THEN 0
            ELSE 10 * IntOf(SubSeq(s, 1, Len(s) - 1)) + DigitVal(s[Len(s)])

DotCount(s) == Cardinality({i \in 1..Len(s) : s[i] = "."})

\* float(text) raises ValueError: the text is drawn from [\d.]*
FloatRaises(s) ==
    \/ Range(s) \cap Digits = {}
    \/ DotCount(s) > 1

\* float(text) in hundredths, for a text on which float() does not raise
\* (fractions of at most two digits)
FloatOf(s) ==
    IF DotCount(s) = 0 THEN 100 * IntOf(s)
    ELSE LET d == CHOOSE i \in 1..Len(s) : s[i] = "."
             ip == SubSeq(s, 1, d - 1)
             fp == SubSeq(s, d + 1, Len(s))
         IN  100 * IntOf(ip)
               + (IF Len(fp) = 0 THEN 0
                  ELSE IF Len(fp) = 1 THEN 10 * IntOf(fp)
                  ELSE IntOf(SubSeq(fp, 1, 2)))

\* ------------------------------------------------------ switch_orientation
\* substitutions.get(c): None for a character that is no key
Substitution(c) == CASE c = "A" -> "T" [] c = "T" -> "A"
                     [] c = "C" -> "G" [] c = "G" -> "C"
                     [] OTHER -> None

\* "".join(...) raises TypeError when an item is None
SwitchRaises(genotype) == \E i \in 1..Len(genotype) : Substitution(genotype[i]) = None

switch_orientation(genotype) == [i \in 1..Len(genotype) |-> Substitution(genotype[i])]

\* ------------------------------------------------------------ read_snpedia
(***************************************************************************)
(* A page is the wikitext as the regular expressions of read_snpedia cut   *)
(* it: the text of the [[Orientation::...]] and [[Max Magnitude::...]]     *)
(* fields (when the page has them), whether the table header               *)
(* "[[Magnitude|Mag]] ... |-" occurs, and the table rows that follow, each *)
(* cut into its cells: variant, genotype, magnitude, comment.              *)
(***************************************************************************)
minus == <<"m", "i", "n", "u", "s">>
plus == <<"p", "l", "u", "s">>

\* {} : the result for a page that is no SNP page
EmptyDict == [empty |-> TRUE, max_magnitude |-> 0,
              original_orientation |-> <<>>, genotypes |-> <<>>]

\* re.search(r"\[\[Orientation::(\w+)\]\]", string)
OrientationMatch(page) ==
    /\ page.orientation.present
    /\ page.orientation.text # <<>>
    /\ Range(page.orientation.text) \subseteq WordChars

\* the max-magnitude check left out
MaxMagnitudeMatchAlways(page) == TRUE

\* re.search(r"\[\[Max Magnitude::(\d+)\]\]", string)
MaxMagnitudeMatch(page) ==
    /\ page.max_magnitude.present
    /\ page.max_magnitude.text # <<>>
    /\ Range(page.max_magnitude.text) \subseteq Digits

\* \w+\([ATCG];?[ATCG]\) against the whole variant cell
VariantMatches(v) ==
    \E n \in 1..Len(v) :
        /\ Range(SubSeq(v, 1, n)) \subseteq WordChars
        /\ LET rest == SubSeq(v, n + 1, Len(v))
           IN  \/ /\ Len(rest) = 5
                  /\ rest[1] = "(" /\ rest[2] \in Bases /\ rest[3] = ";"
                  /\ rest[4] \in Bases /\ rest[5] = ")"
               \/ /\ Len(rest) = 4
                  /\ rest[1] = "(" /\ rest[2] \in Bases
                  /\ rest[3] \in Bases /\ rest[4] = ")"

\* the row pattern of the while loop, against one row
RowMatches(row) ==
    /\ VariantMatches(row.variant)
    /\ "]" \notin Range(row.genotype)
    /\ Range(row.magnitude) \subseteq Digits \cup {"."}

\* re.sub("\W", "", genotype)
StripNonWord(genotype) == Filter(genotype, WordChars)

\* an assignment that keeps the value a key already has
PutKeepFirst(map, k, v) ==
    [x \in DOMAIN map \cup {k} |-> IF x \in DOMAIN map THEN map[x] ELSE v]

\* dict item assignment
Put(map, k, v) == [x \in DOMAIN map \cup {k} |-> IF x = k THEN v ELSE map[x]]

\* the key without the orientation switch
RowKeyUnswitched(row, orientation) == StripNonWord(row.genotype)

\* the key a matched row is stored under (lines 52-55), when nothing raises
RowKey(row, orientation) ==
    IF orientation = minus THEN switch_orientation(StripNonWord(row.genotype))
    ELSE StripNonWord(row.genotype)

\* a matched row makes lines 52-58 raise
RowRaises(row, orientation) ==
    \/ orientation = minus /\ SwitchRaises(StripNonWord(row.genotype))
    \/ row.magnitude # <<>> /\ FloatRaises(row.magnitude)

RowEntry(row) ==
    [magnitude |-> IF row.magnitude # <<>> THEN <<FloatOf(row.magnitude)>> ELSE NoneMag,
     variant |-> row.variant,
     comment |-> strip(row.comment)]

RECURSIVE ParseRows(_, _, _)
\* the while loop: [raised, genotypes]
ParseRows(rows, orientation, genotypes) ==
    IF rows = <<>> \/ ~RowMatches(Head(rows))
    THEN [raised |-> FALSE, genotypes |-> genotypes]
    ELSE IF RowRaises(Head(rows), orientation)
    THEN [raised |-> TRUE, genotypes |-> genotypes]
    ELSE ParseRows(Tail(rows), orientation,
                   Put(genotypes, RowKey(Head(rows), orientation), RowEntry(Head(rows))))

RECURSIVE RowsRaiseKind(_, _)
\* the exception the while loop ends with, "none" when it ends by a break:
\* line 55 is reached before line 58
RowsRaiseKind(rows, orientation) ==
    IF rows = <<>> \/ ~RowMatches(Head(rows)) THEN "none"
    ELSE IF orientation = minus /\ SwitchRaises(StripNonWord(Head(rows).genotype))
    THEN "TypeError"
    ELSE IF Head(rows).magnitude # <<>> /\ FloatRaises(Head(rows).magnitude)
    THEN "ValueError"
    ELSE RowsRaiseKind(Tail(rows), orientation)

\* the exception read_snpedia raises on the page, "none" when it returns
RaiseKind(page) ==
    IF ~OrientationMatch(page) \/ ~MaxMagnitudeMatch(page) THEN "none"
    ELSE IF ~page.header THEN "AttributeError"
    ELSE RowsRaiseKind(page.rows, page.orientation.text)

\* read_snpedia raises (AttributeError on a missing table header, TypeError
\* from switch_orientation, ValueError from float)
ReadRaises(page) ==
    /\ OrientationMatch(page)
    /\ MaxMagnitudeMatch(page)
    /\ \/ ~page.header
       \/ ParseRows(page.rows, page.orientation.text, <<>>).raised

\* the value read_snpedia returns, when it does not raise
read_snpedia(page) ==
    IF ~OrientationMatch(page) THEN EmptyDict
    ELSE IF ~MaxMagnitudeMatch(page) THEN EmptyDict
    ELSE [empty |-> FALSE,
          max_magnitude |-> FloatOf(page.max_magnitude.text),
          original_orientation |-> page.orientation.text,
          genotypes |-> ParseRows(page.rows, page.orientation.text, <<>>).genotypes]

\* ------------------------------------------------- test_and_store_genotype
BaseUrl == <<"http://www.snpedia.com/index.php/">>

\* snpmatch: a copy of the annotation with rsid, genotype, magnitude, link
SnpMatch(info, rsid, genotype) ==
    [max_magnitude |-> info.max_magnitude,
     original_orientation |-> info.original_orientation,
     genotypes |-> info.genotypes,
     rsid |-> rsid,
     genotype |-> genotype,
     magnitude |-> info.genotypes[genotype].magnitude,
     link |-> BaseUrl \o capitalize(rsid)]

\* the condition of line 77
GenotypeMatches(info, genotype) ==
    /\ ~info.empty
    /\ genotype \in DOMAIN info.genotypes

\* the list the call returns: the default list, appended to on a match
test_and_store_genotype(snpinfo, rsid, genotype, matches) ==
    IF GenotypeMatches(snpinfo[rsid], genotype)
    THEN Append(matches, SnpMatch(snpinfo[rsid], rsid, genotype))
    ELSE matches

\* ------------------------------------------------------------ matches.sort
\* Python 2 ordering of the sort keys: None is smaller than every number
KeyLess(a, b) ==
    \/ a = NoneMag /\ b # NoneMag
    \/ a # NoneMag /\ b # NoneMag /\ a[1] < b[1]

RECURSIVE InsertStable(_, _)
\* x into an ascending list, after the items that are not greater
InsertStable(sorted, x) ==
    IF sorted = <<>> THEN <<x>>
    ELSE IF KeyLess(x.magnitude, Head(sorted).magnitude) THEN <<x>> \o sorted
    ELSE <<Head(sorted)>> \o InsertStable(Tail(sorted), x)

RECURSIVE SortAscending(_)
\* stable ascending sort
SortAscending(list) ==
    IF list = <<>> THEN <<>>
    ELSE InsertStable(SortAscending(SubSeq(list, 1, Len(list) - 1)), list[Len(list)])

\* a descending sort that reverses the order of equal keys
SortReverseUnstable(list) == Reverse(SortAscending(list))

\* list.sort(key=..., reverse=True): reverse, stable ascending sort, reverse
SortReverse(list) == Reverse(SortAscending(Reverse(list)))

\* ----------------------------------------------- the "snpedia_rsids" entry
RECURSIVE StrLess(_, _)
\* a < b on str
StrLess(a, b) ==
    IF b = <<>> THEN FALSE
    ELSE IF a = <<>> THEN TRUE
    ELSE IF Head(a) # Head(b) THEN Ord(Head(a)) < Ord(Head(b))
    ELSE StrLess(Tail(a), Tail(b))

RECURSIVE Sorted(_)
\* sorted(set of str)
Sorted(S) ==
    IF S = {} THEN <<>>
    ELSE LET m == CHOOSE x \in S : \A y \in S \ {x} : StrLess(x, y)
         IN  <<m>> \o Sorted(S \ {m})

RECURSIVE Join(_, _)
\* sep.join(list)
Join(sep, list) ==
    IF list = <<>> THEN <<>>
    ELSE IF Len(list) = 1 THEN Head(list)
    ELSE Head(list) \o sep \o Join(sep, Tail(list))

\* line 110: the text written under "snpedia_rsids"
RsidsText(rsids) == Join(<<NL>>, Sorted(rsids))

\* line 104: the set comprehension iterates the str that read() returns,
\* so "line" is each character of the entry
LoadRsids(text) == {rstrip(<<text[i]>>) : i \in 1..Len(text)}

\* ------------------------------------------------ snpedia-archive.json
JsonNumber(m) == IF m = NoneMag THEN [null |-> TRUE, num |-> 0]
                 ELSE [null |-> FALSE, num |-> m[1]]

FromJsonNumber(j) == IF j.null THEN NoneMag ELSE <<j.num>>

\* json.dump of one annotation: {} or an object of three members
JsonOfInfo(info) ==
    IF info.empty THEN [members |-> 0, max_magnitude |-> 0,
                        original_orientation |-> <<>>, genotypes |-> <<>>]
    ELSE [members |-> 3,
          max_magnitude |-> info.max_magnitude,
          original_orientation |-> info.original_orientation,
          genotypes |-> [g \in DOMAIN info.genotypes |->
                            [magnitude |-> JsonNumber(info.genotypes[g].magnitude),
                             variant |-> info.genotypes[g].variant,
                             comment |-> info.genotypes[g].comment]]]

InfoOfJson(j) ==
    IF j.members = 0 THEN EmptyDict
    ELSE [empty |-> FALSE,
          max_magnitude |-> j.max_magnitude,
          original_orientation |-> j.original_orientation,
          genotypes |-> [g \in DOMAIN j.genotypes |->
                            [magnitude |-> FromJsonNumber(j.genotypes[g].magnitude),
                             variant |-> j.genotypes[g].variant,
                             comment |-> j.genotypes[g].comment]]]

\* lines 185-186
JsonDump(snpinfo) == [r \in DOMAIN snpinfo |-> JsonOfInfo(snpinfo[r])]

\* a load that leaves out the entries that are {}
JsonLoadDropEmpty(file) ==
    IF file.status = "valid"
    THEN [r \in {x \in DOMAIN file.doc : file.doc[x].members # 0} |-> InfoOfJson(file.doc[r])]
    ELSE <<>>

\* lines 113-117: the index, {} when the file is missing or does not parse
JsonLoad(file) ==
    IF file.status = "valid" THEN [r \in DOMAIN file.doc |-> InfoOfJson(file.doc[r])]
    ELSE <<>>

\* -------------------------------------------------- snpedia-archive.zip
\* ZipFile.namelist(), as a set
NameList(archive) == {archive[i].name : i \in 1..Len(archive)}

\* ZipFile.read(name): the entry written last under the name
ZipRead(archive, name) ==
    archive[CHOOSE i \in 1..Len(archive) :
                /\ archive[i].name = name
                /\ \A j \in (i + 1)..Len(archive) : archive[j].name # name].data

\* ZipFile.writestr(name, data)
WriteStr(archive, name, data) == Append(archive, [name |-> name, data |-> data])

\* ------------------------------------------------------------- the wiki
rs1 == <<"r", "s", "1">>
rs2 == <<"r", "s", "2">>
rs5 == <<"r", "s", "5">>

\* article titles of the category "Is_a_snp"
Titles == {<<"R", "s", "1">>, <<"R", "s", "2">>, <<"R", "s", "5">>}

\* lines 108-109: the lower-cased titles
Enumerate == {lower(t) : t \in Titles}

Field(text) == [present |-> TRUE, text |-> text]
NoField == [present |-> FALSE, text |-> <<>>]

TableRow(variant, genotype, magnitude, comment) ==
    [variant |-> variant, genotype |-> genotype,
     magnitude |-> magnitude, comment |-> comment]

VarAG == <<"R", "s", "1", "(", "A", ";", "G", ")">>
VarGG == <<"R", "s", "1", "(", "G", ";", "G", ")">>
VarTC == <<"R", "s", "2", "(", "T", ";", "C", ")">>

RowAG == TableRow(VarAG, <<"(", "A", ";", "G", ")">>, <<"2">>, <<" ", "x", " ">>)
RowGG == TableRow(VarGG, <<"(", "G", ";", "G", ")">>, <<>>, <<>>)
RowAGspaced == TableRow(VarAG, <<"(", "A", ";", " ", "G", ")">>, <<"1", ".", "5">>, <<"x">>)
RowAGnone == TableRow(VarAG, <<"(", "A", ";", "G", ")">>, <<>>, <<"x", NL>>)
RowTC == TableRow(VarTC, <<"(", "T", ";", "C", ")">>, <<"1", ".", "5">>, <<>>)
RowAI == TableRow(VarAG, <<"(", "A", ";", "I", ")">>, <<"1">>, <<>>)
RowDot == TableRow(VarGG, <<"(", "G", ";", "G", ")">>, <<".">>, <<>>)
RowDI == TableRow(<<"R", "s", "1", "(", "D", ";", "I", ")">>,
                  <<"(", "D", ";", "I", ")">>, <<"9">>, <<>>)

WikiText(orientation, max_magnitude, header, rows) ==
    [orientation |-> orientation, max_magnitude |-> max_magnitude,
     header |-> header, rows |-> rows]

\* the pages the wiki may hold for Rs1
Rs1Pages ==
    { WikiText(Field(minus), Field(<<"2">>), TRUE, <<RowAG, RowGG>>),
      WikiText(Field(minus), Field(<<"2">>), TRUE, <<RowAG, RowGG, RowAGspaced, RowDI, RowGG>>),
      WikiText(Field(plus), Field(<<"1", "0">>), TRUE, <<RowTC, RowAGnone>>),
      WikiText(Field(minus), Field(<<"2">>), FALSE, <<RowAG>>),
      WikiText(Field(minus), Field(<<"2">>), TRUE, <<RowAG, RowAI>>),
      WikiText(Field(plus), Field(<<"2">>), TRUE, <<RowAG, RowDot>>) }

Rs2Page == WikiText(Field(plus), Field(<<"5">>), TRUE, <<RowAGnone, RowTC>>)

\* no SNP page: the orientation field is missing
Rs5Page == WikiText(NoField, Field(<<"2">>), TRUE, <<RowAG>>)

\* ------------------------------------------------------------ the input
\* rsid and genotype columns of the rows a genome file may hold
CommentRow == [rsid |-> <<"#", "x">>, genotype |-> <<>>]
InputGenotypes == {<<"T", "C">>, <<"A", "G">>}
Rows == {CommentRow}
          \cup [rsid : {rs1, rs2}, genotype : InputGenotypes]
          \cup [rsid : {rs5, <<"r">>}, genotype : {<<"T", "C">>}]

\* ------------------------------------------------------------- the state
VARIABLES
    wiki,           \* SNPedia: lower-cased title -> wikitext
    track,          \* the rows read are recorded, and a run may be repeated
    archive,        \* snpedia-archive.zip: the page entries, in order written
    rsidsEntry,     \* snpedia-archive.zip: the entry "snpedia_rsids"
    jsonFile,       \* snpedia-archive.json
    resultFile,     \* <genome file>.json
    pc,             \* "idle", "loop" (line 123), "parse" (line 159), "done", "aborted"
    error,          \* the exception that ended the run
    runs,           \* runs started
    snpedia_rsids,
    snpinfo,
    namelist,
    matches,        \* the name matches: bound or not, and the default list
    snp,            \* the row of the for loop
    nread,          \* rows read
    enumerated,     \* category queries issued by this run
    queried,        \* rsids whose page this run asked SNPedia for
    parsed,         \* rsids this run called read_snpedia for
    lookup,         \* the branch of lines 125-156 the last row took
    inputRead,      \* the rows this run read (when track)
    rerun,          \* this run repeats the input of the completed run before it
    prevInput,
    prevResult

vars == <<wiki, track, archive, rsidsEntry, jsonFile, resultFile, pc, error, runs,
          snpedia_rsids, snpinfo, namelist, matches, snp, nread, enumerated,
          queried, parsed, lookup, inputRead, rerun, prevInput, prevResult>>

files == <<archive, rsidsEntry, jsonFile, resultFile>>
history == <<inputRead, rerun, prevInput, prevResult>>

NoLookup == [rsid |-> <<>>, inIndex |-> FALSE, inArchive |-> FALSE,
             inRsids |-> FALSE, branch |-> "none"]

InitCommon ==
    /\ wiki \in {[r \in Enumerate |-> IF r = rs1 THEN p ELSE IF r = rs2 THEN Rs2Page ELSE Rs5Page]
                    : p \in Rs1Pages}
    /\ archive = <<>>
    /\ rsidsEntry = [present |-> FALSE, text |-> <<>>]
    /\ jsonFile = [status |-> "missing", doc |-> <<>>]
    /\ resultFile = [written |-> FALSE, matches |-> <<>>]
    /\ pc = "idle"
    /\ error = "none"
    /\ runs = 0
    /\ snpedia_rsids = {}
    /\ snpinfo = <<>>
    /\ namelist = {}
    /\ matches = [bound |-> FALSE, list |-> <<>>]
    /\ snp = CommentRow
    /\ nread = 0
    /\ enumerated = 0
    /\ queried = {}
    /\ parsed = {}
    /\ lookup = NoLookup
    /\ inputRead = <<>>
    /\ rerun = FALSE
    /\ prevInput = <<>>
    /\ prevResult = <<>>

Init == InitCommon /\ track = FALSE

\* ------------------------------------------------------ lines 95-121
\* the archive opened with mode "w": the page entries are gone
OpenTruncating ==
    /\ pc \in {"idle", "done", "aborted"}
    /\ runs < MaxRuns
    /\ runs' = runs + 1
    /\ snpinfo' = JsonLoad(jsonFile)
    /\ archive' = <<>>
    /\ namelist' = {}
    /\ matches' = [bound |-> FALSE, list |-> <<>>]
    /\ nread' = 0
    /\ queried' = {}
    /\ parsed' = {}
    /\ lookup' = NoLookup
    /\ snp' = CommentRow
    /\ inputRead' = <<>>
    /\ rerun' = FALSE
    /\ prevInput' = <<>>
    /\ prevResult' = <<>>
    /\ UNCHANGED <<wiki, track, jsonFile, resultFile>>

\* what every start of a run does besides settling snpedia_rsids
Open ==
    /\ pc \in {"idle", "done", "aborted"}
    /\ runs < MaxRuns
    /\ runs' = runs + 1
    /\ snpinfo' = JsonLoad(jsonFile)
    /\ namelist' = NameList(archive)
    /\ matches' = [bound |-> FALSE, list |-> <<>>]
    /\ nread' = 0
    /\ queried' = {}
    /\ parsed' = {}
    /\ lookup' = NoLookup
    /\ snp' = CommentRow
    /\ inputRead' = <<>>
    /\ rerun' \in (IF track /\ pc = "done" THEN BOOLEAN ELSE {FALSE})
    /\ prevInput' = IF rerun' THEN inputRead ELSE <<>>
    /\ prevResult' = IF rerun' THEN resultFile.matches ELSE <<>>
    /\ UNCHANGED <<wiki, track, archive, jsonFile, resultFile>>

\* lines 103-104: the archive has the entry
StartCached ==
    /\ Open
    /\ rsidsEntry.present
    /\ snpedia_rsids' = LoadRsids(rsidsEntry.text)
    /\ enumerated' = 0
    /\ pc' = "loop"
    /\ error' = "none"
    /\ UNCHANGED rsidsEntry

\* lines 105-111: the category is enumerated and the entry written
StartEnumerate ==
    /\ Open
    /\ ~rsidsEntry.present
    /\ snpedia_rsids' = Enumerate
    /\ rsidsEntry' = [present |-> TRUE, text |-> RsidsText(Enumerate)]
    /\ enumerated' = 1
    /\ pc' = "loop"
    /\ error' = "none"

\* lines 107-109: the category query raises
StartEnumerateFails ==
    /\ Open
    /\ ~rsidsEntry.present
    /\ snpedia_rsids' = {}
    /\ enumerated' = 1
    /\ pc' = "aborted"
    /\ error' = "EnumerateError"
    /\ UNCHANGED rsidsEntry

\* ------------------------------------------------------ lines 123-163
\* the rows the file can yield next: any row, or the recorded one on a rerun
NextRows ==
    IF rerun
    THEN (IF nread < Len(prevInput) THEN {prevInput[nread + 1]} ELSE {})
    ELSE (IF nread < MaxRows THEN Rows ELSE {})

\* the file is exhausted
EndOfFile == IF rerun THEN nread = Len(prevInput) ELSE TRUE

\* the for loop yields row: what every branch of the body does
Read(row, branch) ==
    /\ pc = "loop"
    /\ row \in NextRows
    /\ snp' = row
    /\ nread' = nread + 1
    /\ inputRead' = IF track THEN Append(inputRead, row) ELSE inputRead
    /\ lookup' = [rsid |-> row.rsid,
                  inIndex |-> row.rsid \in DOMAIN snpinfo,
                  inArchive |-> row.rsid \in namelist,
                  inRsids |-> row.rsid \in snpedia_rsids,
                  branch |-> branch]
    /\ UNCHANGED <<wiki, track, rsidsEntry, jsonFile, resultFile, runs, snpedia_rsids,
                   namelist, enumerated, rerun, prevInput, prevResult>>

\* lines 125-127
SkipComment ==
    \E row \in Rows :
        /\ Read(row, "comment")
        /\ row.rsid[1] = "#"
        /\ UNCHANGED <<archive, pc, error, snpinfo, matches, queried, parsed>>

\* the index check lost: an indexed row with an archive entry is parsed again
IndexHitReparse ==
    \E row \in Rows :
        /\ Read(row, "archive")
        /\ row.rsid[1] # "#"
        /\ row.rsid \in DOMAIN snpinfo
        /\ row.rsid \in namelist
        /\ pc' = "parse"
        /\ UNCHANGED <<archive, error, snpinfo, matches, queried, parsed>>

\* lines 140-143
IndexHit ==
    \E row \in Rows :
        /\ Read(row, "index")
        /\ row.rsid[1] # "#"
        /\ row.rsid \in DOMAIN snpinfo
        /\ matches' = [bound |-> TRUE,
                       list |-> test_and_store_genotype(snpinfo, row.rsid,
                                                        row.genotype, matches.list)]
        /\ UNCHANGED <<archive, pc, error, snpinfo, queried, parsed>>

\* the archive check lost: an archived page is asked for again
ArchiveHitRequery ==
    \E row \in Rows :
        /\ Read(row, "archive")
        /\ row.rsid[1] # "#"
        /\ row.rsid \notin DOMAIN snpinfo
        /\ row.rsid \in namelist
        /\ row.rsid \in DOMAIN wiki
        /\ queried' = queried \cup {row.rsid}
        /\ archive' = WriteStr(archive, row.rsid, wiki[row.rsid])
        /\ pc' = "parse"
        /\ UNCHANGED <<error, snpinfo, matches, parsed>>

\* lines 146-147
ArchiveHit ==
    \E row \in Rows :
        /\ Read(row, "archive")
        /\ row.rsid[1] # "#"
        /\ row.rsid \notin DOMAIN snpinfo
        /\ row.rsid \in namelist
        /\ pc' = "parse"
        /\ UNCHANGED <<archive, error, snpinfo, matches, queried, parsed>>

\* the query branch without the test of snpedia_rsids
QueryCaseAnyId(row) ==
    /\ row.rsid[1] # "#"
    /\ row.rsid \notin DOMAIN snpinfo
    /\ row.rsid \notin namelist

\* the query branch without the test of the index
QueryCaseIgnoringIndex(row) ==
    /\ row.rsid[1] # "#"
    /\ row.rsid \notin namelist
    /\ row.rsid \in snpedia_rsids

\* the branch of line 149 is taken
QueryCase(row) ==
    /\ row.rsid[1] # "#"
    /\ row.rsid \notin DOMAIN snpinfo
    /\ row.rsid \notin namelist
    /\ row.rsid \in snpedia_rsids

\* lines 149-153: SNPedia returns the page and it is written to the archive
QuerySnpedia ==
    \E row \in Rows :
        /\ Read(row, "query")
        /\ QueryCase(row)
        /\ row.rsid \in DOMAIN wiki
        /\ queried' = queried \cup {row.rsid}
        /\ archive' = WriteStr(archive, row.rsid, wiki[row.rsid])
        /\ pc' = "parse"
        /\ UNCHANGED <<error, snpinfo, matches, parsed>>

\* lines 151-152: the query raises (no such page, or a network error)
QueryFails ==
    \E row \in Rows :
        /\ Read(row, "query")
        /\ QueryCase(row)
        /\ queried' = queried \cup {row.rsid}
        /\ pc' = "aborted"
        /\ error' = "QueryError"
        /\ UNCHANGED <<archive, snpinfo, matches, parsed>>

\* the skip remembered: {} is stored for an identifier that is not on SNPedia
NotOnSnpediaCached ==
    \E row \in Rows :
        /\ Read(row, "notonwiki")
        /\ row.rsid[1] # "#"
        /\ row.rsid \notin DOMAIN snpinfo
        /\ row.rsid \notin namelist
        /\ row.rsid \notin snpedia_rsids
        /\ snpinfo' = Put(snpinfo, row.rsid, EmptyDict)
        /\ UNCHANGED <<archive, pc, error, matches, queried, parsed>>

\* lines 154-156
NotOnSnpedia ==
    \E row \in Rows :
        /\ Read(row, "notonwiki")
        /\ row.rsid[1] # "#"
        /\ row.rsid \notin DOMAIN snpinfo
        /\ row.rsid \notin namelist
        /\ row.rsid \notin snpedia_rsids
        /\ UNCHANGED <<archive, pc, error, snpinfo, matches, queried, parsed>>

\* lines 159-163: the page parses; the result is stored and, unless {}, tested
ParseAndTest ==
    /\ pc = "parse"
    /\ ~ReadRaises(ZipRead(archive, snp.rsid))
    /\ parsed' = parsed \cup {snp.rsid}
    /\ snpinfo' = Put(snpinfo, snp.rsid, read_snpedia(ZipRead(archive, snp.rsid)))
    /\ matches' = IF snpinfo'[snp.rsid].empty THEN matches
                  ELSE [bound |-> TRUE,
                        list |-> test_and_store_genotype(snpinfo', snp.rsid,
                                                         snp.genotype, matches.list)]
    /\ pc' = "loop"
    /\ UNCHANGED <<wiki, track, files, error, runs, snpedia_rsids, namelist, snp, nread,
                   enumerated, queried, lookup, history>>

\* line 159: read_snpedia raises
ParseFails ==
    /\ pc = "parse"
    /\ ReadRaises(ZipRead(archive, snp.rsid))
    /\ parsed' = parsed \cup {snp.rsid}
    /\ pc' = "aborted"
    /\ error' = "ParseError"
    /\ UNCHANGED <<wiki, track, files, runs, snpedia_rsids, snpinfo, namelist, matches,
                   snp, nread, enumerated, queried, lookup, history>>

\* ------------------------------------------------------ lines 165-186
\* the report and the index are written
Finish ==
    /\ pc = "loop"
    /\ EndOfFile
    /\ matches.bound
    /\ resultFile' = [written |-> TRUE, matches |-> SortReverse(matches.list)]
    /\ jsonFile' = [status |-> "valid", doc |-> JsonDump(snpinfo)]
    /\ pc' = "done"
    /\ UNCHANGED <<wiki, track, archive, rsidsEntry, error, runs, snpedia_rsids, snpinfo,
                   namelist, matches, snp, nread, enumerated, queried, parsed, lookup,
                   history>>

\* line 167: the name matches was never assigned
FinishNameError ==
    /\ pc = "loop"
    /\ EndOfFile
    /\ ~matches.bound
    /\ pc' = "aborted"
    /\ error' = "NameError"
    /\ UNCHANGED <<wiki, track, files, runs, snpedia_rsids, snpinfo, namelist, matches,
                   snp, nread, enumerated, queried, parsed, lookup, history>>

Next ==
    \/ StartCached
    \/ StartEnumerate
    \/ StartEnumerateFails
    \/ SkipComment
    \/ IndexHit
    \/ ArchiveHit
    \/ QuerySnpedia
    \/ QueryFails
    \/ NotOnSnpedia
    \/ ParseAndTest
    \/ ParseFails
    \/ Finish
    \/ FinishNameError

Spec == Init /\ [][Next]_vars

\* the same program, with the rows read recorded so that a run can be repeated
InitRerun == InitCommon /\ track = TRUE

RerunSpec == InitRerun /\ [][Next]_vars

TypeOK ==
    /\ pc \in {"idle", "loop", "parse", "done", "aborted"}
    /\ runs \in 0..MaxRuns
    /\ nread \in 0..MaxRows

\* --------------------------------- the index file is lost between runs
\* snpedia-archive.json is deleted, or damaged so that json.load raises
\* ValueError (the cases of line 116)
LoseIndex ==
    /\ pc \in {"done", "aborted"}
    /\ runs < MaxRuns
    /\ jsonFile.status = "valid"
    /\ jsonFile' \in {[status |-> "missing", doc |-> <<>>],
                      [status |-> "malformed", doc |-> <<>>]}
    /\ UNCHANGED <<wiki, track, archive, rsidsEntry, resultFile, pc, error, runs,
                   snpedia_rsids, snpinfo, namelist, matches, snp, nread, enumerated,
                   queried, parsed, lookup, history>>

LossNext == Next \/ LoseIndex

LossSpec == Init /\ [][LossNext]_vars

\* --------------------------------------------- lines 165-170 on their own
\* the annotations read_snpedia returns for the pages of the wiki
PoolPages == {<<rs1, p>> : p \in {q \in Rs1Pages : ~ReadRaises(q)}} \cup {<<rs2, Rs2Page>>}

\* the matches test_and_store_genotype can append for them
MatchPool ==
    UNION { {SnpMatch(read_snpedia(rp[2]), rp[1], g) :
                g \in DOMAIN read_snpedia(rp[2]).genotypes} : rp \in PoolPages }

RECURSIVE ListsUpTo(_)
ListsUpTo(n) ==
    IF n = 0 THEN {<<>>}
    ELSE LET shorter == ListsUpTo(n - 1)
         IN  shorter \cup {Append(l, m) : l \in {x \in shorter : Len(x) = n - 1}, m \in MatchPool}

\* the end of the for loop of a first run, with any list of matches collected
InitSort ==
    /\ wiki = [r \in Enumerate |-> IF r = rs1 THEN CHOOSE p \in Rs1Pages : ~ReadRaises(p)
                                    ELSE IF r = rs2 THEN Rs2Page ELSE Rs5Page]
    /\ track = FALSE
    /\ archive = <<>>
    /\ rsidsEntry = [present |-> TRUE, text |-> RsidsText(Enumerate)]
    /\ jsonFile = [status |-> "missing", doc |-> <<>>]
    /\ resultFile = [written |-> FALSE, matches |-> <<>>]
    /\ pc = "loop"
    /\ error = "none"
    /\ runs = 1
    /\ snpedia_rsids = Enumerate
    /\ snpinfo = <<>>
    /\ namelist = {}
    /\ matches \in {[bound |-> TRUE, list |-> l] : l \in ListsUpTo(MaxMatches)}
    /\ snp = CommentRow
    /\ nread = 0
    /\ enumerated = 1
    /\ queried = {}
    /\ parsed = {}
    /\ lookup = NoLookup
    /\ inputRead = <<>>
    /\ rerun = FALSE
    /\ prevInput = <<>>
    /\ prevResult = <<>>

SortSpec == InitSort /\ [][Finish]_vars

\* ------------------------------------------- lines 158-163 on any page
RowPool == {RowAG, RowGG, RowAGspaced, RowAGnone, RowTC, RowAI, RowDot, RowDI}

RECURSIVE TablesUpTo(_)
TablesUpTo(n) ==
    IF n = 0 THEN {<<>>}
    ELSE LET shorter == TablesUpTo(n - 1)
         IN  shorter \cup {Append(t, r) : t \in {x \in shorter : Len(x) = n - 1}, r \in RowPool}

\* pages with and without each field, a field that is no integer, with and
\* without the table header, with any table
PagePool ==
    {WikiText(o, m, h, t) :
        o \in {NoField, Field(minus), Field(plus)},
        m \in {NoField, Field(<<"2">>), Field(<<"1", ".", "5">>)},
        h \in BOOLEAN,
        t \in TablesUpTo(MaxTableRows)}

\* line 158 of a later run: the archive holds a page for rs1 that an earlier,
\* aborted run fetched, and a row for rs1 was read
InitParse ==
    /\ wiki \in {[r \in Enumerate |-> IF r = rs1 THEN p ELSE IF r = rs2 THEN Rs2Page ELSE Rs5Page]
                    : p \in PagePool}
    /\ track = FALSE
    /\ archive = <<[name |-> rs1, data |-> wiki[rs1]]>>
    /\ rsidsEntry = [present |-> TRUE, text |-> RsidsText(Enumerate)]
    /\ jsonFile = [status |-> "missing", doc |-> <<>>]
    /\ resultFile = [written |-> FALSE, matches |-> <<>>]
    /\ pc = "parse"
    /\ error = "none"
    /\ runs = 2
    /\ snpedia_rsids = LoadRsids(rsidsEntry.text)
    /\ snpinfo = <<>>
    /\ namelist = {rs1}
    /\ matches = [bound |-> FALSE, list |-> <<>>]
    /\ snp \in [rsid : {rs1}, genotype : InputGenotypes]
    /\ nread = 1
    /\ enumerated = 0
    /\ queried = {}
    /\ parsed = {}
    /\ lookup = [rsid |-> rs1, inIndex |-> FALSE, inArchive |-> TRUE,
                 inRsids |-> FALSE, branch |-> "archive"]
    /\ inputRead = <<>>
    /\ rerun = FALSE
    /\ prevInput = <<>>
    /\ prevResult = <<>>

ParseSpec == InitParse /\ [][ParseAndTest \/ ParseFails]_vars

\* ---------------------------------------------------------------- claims
\* a step of the for loop that reads a row with a real identifier
ReadsRow == pc = "loop" /\ nread' = nread + 1 /\ snp'.rsid[1] # "#"

\* a step after which the lookup of the row in snp' is answered from an
\* annotation: the index hit, or the parse of the archived page
Answers ==
    \/ ReadsRow /\ snp'.rsid \in DOMAIN snpinfo
    \/ pc = "parse" /\ pc' = "loop"

\* C1: a run that repeats the input of the completed run before it, on the
\* caches that run left, issues no category query and no page query, and
\* when it completes its match list is the one of the run before
C1_Idempotent ==
    rerun => /\ enumerated = 0
             /\ queried = {}
             /\ pc # "aborted"
             /\ pc = "done" => resultFile.matches = prevResult

\* C2: in every run, a row whose identifier is neither in the index nor in
\* the archive and is one of the wiki's identifiers takes the query branch
C2_KnownIsQueried ==
    (lookup.branch \notin {"none", "comment"}
        /\ ~lookup.inIndex /\ ~lookup.inArchive /\ lookup.rsid \in Enumerate)
    => lookup.branch = "query"

\* C3: a run that finds the entry "snpedia_rsids" in the archive enumerates
\* nothing and holds exactly the identifiers that were enumerated and written
C3_RsidsRoundTrip ==
    (runs > 0 /\ error # "EnumerateError" /\ enumerated = 0)
    => snpedia_rsids = Enumerate

C5_NoFailureAtEnd ==
    pc = "aborted" => error \in {"EnumerateError", "QueryError", "ParseError"}

\* C6: a row whose identifier is a key of the index is answered from the
\* index: no parse, no query, index and archive unchanged
C6_IndexFirst ==
    [][ (ReadsRow /\ snp'.rsid \in DOMAIN snpinfo)
        => /\ lookup'.branch = "index"
           /\ queried' = queried
           /\ parsed' = parsed
           /\ archive' = archive
           /\ snpinfo' = snpinfo
           /\ pc' = "loop" ]_vars

C6_Witness ==
    /\ lookup.branch = "index"
    /\ lookup.inArchive
    /\ runs = 2
    /\ pc = "loop"

HasNoMagnitude(m) == m.magnitude = NoneMag

C8_SortedReport ==
    pc = "done" =>
        LET out == resultFile.matches
        IN  /\ Len(out) = Len(matches.list)
            /\ \A i, j \in 1..Len(out) :
                  i < j =>
                    /\ (~HasNoMagnitude(out[i]) /\ ~HasNoMagnitude(out[j]))
                          => out[i].magnitude[1] >= out[j].magnitude[1]
                    /\ HasNoMagnitude(out[i]) => HasNoMagnitude(out[j])
            /\ SelectSeq(out, HasNoMagnitude) = SelectSeq(matches.list, HasNoMagnitude)

C8_Witness ==
    /\ pc = "done"
    /\ Len(matches.list) = 3
    /\ HasNoMagnitude(matches.list[1])
    /\ ~HasNoMagnitude(matches.list[2])
    /\ HasNoMagnitude(matches.list[3])
    /\ matches.list[1] # matches.list[3]
    /\ resultFile.matches = <<matches.list[2], matches.list[1], matches.list[3]>>

\* C9: a match is appended exactly by a step that answers the lookup with
\* a non-empty annotation having the observed genotype as a key; it carries
\* the identifier, the genotype, the magnitude of that genotype's entry and
\* the base URL followed by the capitalized identifier
ExpectedLink(rsid) == BaseUrl \o <<UpperChar(rsid[1])>> \o lower(Tail(rsid))

C9_MatchIff ==
    [][ runs' = runs =>
        LET hit == /\ Answers
                   /\ ~snpinfo'[snp'.rsid].empty
                   /\ snp'.genotype \in DOMAIN snpinfo'[snp'.rsid].genotypes
        IN  /\ hit =>
                /\ Len(matches'.list) = Len(matches.list) + 1
                /\ SubSeq(matches'.list, 1, Len(matches.list)) = matches.list
                /\ LET m == matches'.list[Len(matches'.list)]
                   IN  /\ m.rsid = snp'.rsid
                       /\ m.genotype = snp'.genotype
                       /\ m.magnitude = snpinfo'[snp'.rsid].genotypes[snp'.genotype].magnitude
                       /\ m.link = ExpectedLink(snp'.rsid)
            /\ ~hit => matches'.list = matches.list ]_vars

C9_Witness ==
    /\ pc = "loop"
    /\ Len(matches.list) = 2
    /\ matches.list[1].rsid # matches.list[2].rsid
    /\ matches.list[2].magnitude = NoneMag
    /\ lookup.branch = "query"

\* C10: for an index entry whose page has orientation minus, the genotype
\* keys are the position-wise complements of the stripped genotypes of the
\* matched table rows, in every run the entry is served in, and the
\* complement of a key is the stripped genotype again; for orientation plus
\* the keys are the stripped genotypes
Complement(g) == [i \in 1..Len(g) |->
                    CASE g[i] = "A" -> "T" [] g[i] = "T" -> "A"
                      [] g[i] = "C" -> "G" [] g[i] = "G" -> "C"]

RECURSIVE MatchedRows(_)
MatchedRows(rows) ==
    IF rows = <<>> \/ ~RowMatches(Head(rows)) THEN {}
    ELSE {Head(rows)} \cup MatchedRows(Tail(rows))

Stripped(row) == Filter(row.genotype, Letters \cup Digits \cup {"_"})

C10_ComplementOnce ==
    \A r \in DOMAIN snpinfo \cap NameList(archive) :
        LET page == ZipRead(archive, r)
            info == snpinfo[r]
            raw  == {Stripped(row) : row \in MatchedRows(page.rows)}
        IN  ~info.empty =>
              IF page.orientation.text = minus
              THEN /\ DOMAIN info.genotypes = {Complement(g) : g \in raw}
                   /\ \A k \in DOMAIN info.genotypes :
                         /\ Len(k) = Len(Complement(k))
                         /\ Complement(k) \in raw
                         /\ Complement(Complement(k)) = k
              ELSE DOMAIN info.genotypes = raw

C10_Witness ==
    /\ runs = 2
    /\ lookup.branch = "index"
    /\ lookup.rsid = rs1
    /\ ~snpinfo[rs1].empty
    /\ snpinfo[rs1].original_orientation = minus
    /\ Cardinality(DOMAIN snpinfo[rs1].genotypes) = 2
    /\ Len(matches.list) > 0

\* the page read_snpedia is given in ParseSpec
ThePage == archive[1].data

RECURSIVE MatchedPrefix(_)
\* the rows the while loop matches: up to the first row that does not match
MatchedPrefix(rows) ==
    IF rows = <<>> \/ ~RowMatches(Head(rows)) THEN <<>>
    ELSE <<Head(rows)>> \o MatchedPrefix(Tail(rows))

\* C11: for a page without the orientation field or without the
\* max-magnitude field read_snpedia does not raise and returns {}, whatever
\* table the page has; no match is stored
C11_NotApplicable ==
    (~ThePage.orientation.present \/ ~ThePage.max_magnitude.present)
    => /\ pc # "aborted"
       /\ pc = "loop" => /\ snpinfo[rs1] = EmptyDict
                         /\ matches.list = <<>>

C11_Witness ==
    /\ pc = "loop"
    /\ ThePage.orientation.present
    /\ ~ThePage.max_magnitude.present
    /\ ThePage.header
    /\ Len(MatchedPrefix(ThePage.rows)) = 2
    /\ snpinfo[rs1].empty

\* C12: a page that parses to {} leaves {} in the index under its identifier
\* and no match; the entry stays for the rest of the run, is written to
\* snpedia-archive.json when the run completes and is loaded by the next
\* run; a row with such an identifier is answered from the index with no
\* parse, no query and no match
C12_NotApplicableCached ==
    [][ /\ (pc = "parse" /\ pc' = "loop" /\ read_snpedia(ZipRead(archive, snp.rsid)).empty)
            => /\ snp.rsid \in DOMAIN snpinfo'
               /\ snpinfo'[snp.rsid] = EmptyDict
               /\ matches' = matches
        /\ (ReadsRow /\ snp'.rsid \in DOMAIN snpinfo /\ snpinfo[snp'.rsid].empty)
            => /\ lookup'.branch = "index"
               /\ parsed' = parsed
               /\ queried' = queried
               /\ snpinfo' = snpinfo
               /\ matches'.list = matches.list
        /\ runs' = runs
            => \A r \in DOMAIN snpinfo :
                  snpinfo[r].empty => r \in DOMAIN snpinfo' /\ snpinfo'[r].empty
        /\ (pc # "done" /\ pc' = "done")
            => \A r \in DOMAIN snpinfo :
                  snpinfo[r].empty => /\ jsonFile'.status = "valid"
                                      /\ r \in DOMAIN jsonFile'.doc
                                      /\ jsonFile'.doc[r].members = 0
        /\ (runs' = runs + 1 /\ jsonFile.status = "valid")
            => \A r \in DOMAIN jsonFile.doc :
                  jsonFile.doc[r].members = 0 => r \in DOMAIN snpinfo' /\ snpinfo'[r].empty
      ]_vars

C12_Witness ==
    /\ runs = 2
    /\ lookup.branch = "index"
    /\ lookup.rsid = rs5
    /\ snpinfo[rs5].empty
    /\ parsed = {}
    /\ queried = {}
    /\ matches.list = <<>>

\* C13: while a run has not completed, snpedia-archive.json is not written
\* and the archive only grows: every entry it had keeps its place and is
\* what read() returns for its name; so after an abort the entries persisted
\* before the run are unchanged.  The next run loads every index entry and
\* has every archive name in namelist
C13_AbortKeepsPersisted ==
    [][ /\ (runs' = runs /\ pc' # "done")
            => /\ jsonFile' = jsonFile
               /\ rsidsEntry.present => rsidsEntry' = rsidsEntry
               /\ Len(archive') >= Len(archive)
               /\ SubSeq(archive', 1, Len(archive)) = archive
               /\ \A n \in NameList(archive) : ZipRead(archive', n) = ZipRead(archive, n)
        /\ runs' = runs + 1
            => /\ jsonFile' = jsonFile
               /\ archive' = archive
               /\ NameList(archive) \subseteq namelist'
               /\ jsonFile.status = "valid"
                    => /\ DOMAIN snpinfo' = DOMAIN jsonFile.doc
                       /\ \A r \in DOMAIN jsonFile.doc :
                             JsonOfInfo(snpinfo'[r]) = jsonFile.doc[r]
      ]_vars

C13_Witness ==
    /\ pc = "aborted"
    /\ error = "QueryError"
    /\ runs = 2
    /\ jsonFile.status = "valid"
    /\ DOMAIN snpinfo = DOMAIN jsonFile.doc
    /\ DOMAIN snpinfo # {}
    /\ Len(archive) > 0

\* C14: a run that starts without a usable snpedia-archive.json and
\* rebuilds the entries of the rows it reads from the archive ends, unless
\* the parser raises, by writing the report and a well-formed index, as the
\* run with the intact index does
C14_IndexRecovery ==
    (runs > 0 /\ jsonFile.status # "valid" /\ pc = "aborted"
        /\ parsed # {} /\ queried = {})
    => error = "ParseError"

\* C18: over all runs, also with a repeated identifier in the input and with
\* the index lost between runs, no two archive entries have the same name:
\* a page is written, hence successfully fetched, at most once
C18_FetchedOnce ==
    \A i, j \in 1..Len(archive) : i # j => archive[i].name # archive[j].name

C18_Witness ==
    /\ runs = 2
    /\ jsonFile.status = "malformed"
    /\ pc = "loop"
    /\ lookup.branch = "archive"
    /\ lookup.rsid \in DOMAIN snpinfo
    /\ Len(archive) = 2

\* C19: from empty caches, in every state of every run, each key of the
\* index in memory and each key of snpedia-archive.json is the name of an
\* archive entry
C19_IndexWithinArchive ==
    /\ DOMAIN snpinfo \subseteq {archive[i].name : i \in 1..Len(archive)}
    /\ DOMAIN jsonFile.doc \subseteq {archive[i].name : i \in 1..Len(archive)}

C19_Witness ==
    /\ runs = 2
    /\ pc = "done"
    /\ Cardinality(DOMAIN jsonFile.doc) = 1
    /\ Len(archive) = 2

\* C15: on a page with orientation minus every matched row hands
\* switch_orientation a string of A, T, C, G only, so read_snpedia never
\* ends with the exception of line 74
C15_SwitchGetsBasesOnly ==
    pc = "aborted" => RaiseKind(ThePage) # "TypeError"

\* C16: the magnitude text of a matched row is empty or a number, so
\* read_snpedia never ends with the exception of float() at line 58
C16_MagnitudeParses ==
    pc = "aborted" => RaiseKind(ThePage) # "ValueError"

\* C17: the genotype keys are those of the matched rows, one entry each,
\* and the entry of a key holds the variant, magnitude and stripped comment
\* of the last matched row with that key
C17_LastRowWins ==
    (pc = "loop" /\ ~snpinfo[rs1].empty) =>
        LET rows == MatchedPrefix(ThePage.rows)
            key(i) == IF ThePage.orientation.text = minus
                      THEN Complement(Stripped(rows[i]))
                      ELSE Stripped(rows[i])
            g == snpinfo[rs1].genotypes
        IN  /\ DOMAIN g = {key(i) : i \in 1..Len(rows)}
            /\ \A k \in DOMAIN g :
                  LET last == CHOOSE i \in 1..Len(rows) :
                                  /\ key(i) = k
                                  /\ \A j \in (i + 1)..Len(rows) : key(j) # k
                  IN  /\ g[k].variant = rows[last].variant
                      /\ g[k].comment = strip(rows[last].comment)
                      /\ g[k].magnitude = IF rows[last].magnitude = <<>> THEN NoneMag
                                          ELSE <<FloatOf(rows[last].magnitude)>>

C17_Witness ==
    /\ pc = "loop"
    /\ ~snpinfo[rs1].empty
    /\ Len(MatchedPrefix(ThePage.rows)) = 2
    /\ Cardinality(DOMAIN snpinfo[rs1].genotypes) = 1
    /\ ThePage.rows[1].magnitude = <<"2">>
    /\ ThePage.rows[2].magnitude = <<"1", ".", "5">>
    /\ Len(matches.list) = 1
    /\ matches.list[1].magnitude = <<150>>

\* C20: on a page that has both fields read_snpedia returns a record and
\* does not raise, with or without the table header
C20_ParserTotal ==
    (OrientationMatch(ThePage) /\ MaxMagnitudeMatch(ThePage))
    => /\ pc # "aborted"
       /\ pc = "loop" => ~snpinfo[rs1].empty

====
